---- MODULE Spec2Model ----
(***************************************************************************)
(* Model of crates/ecstore/src/disk/os.rs (rustfs): the path validator,    *)
(* the directory lister, the topology classifier, the reliable directory   *)
(* creator and the reliable renamer.                                       *)
(*                                                                         *)
(* A path is the sequence of its std::path components; an absolute path    *)
(* starts with the component RootDir ("/"), the empty path is <<>>.        *)
(* The filesystem is a finite tree of nodes, each absent, a directory or a *)
(* regular file.  Every system call is one atomic step; a call of this     *)
(* layer is a sequence of such steps, interleaved with the steps of other  *)
(* processes working on the same tree.                                     *)
(***************************************************************************)
EXTENDS Integers, Sequences, FiniteSets, TLC

VARIABLES
    fs,       \* the filesystem: node path -> "none" | "dir" | "file"
    call,     \* per caller: the call in progress (arguments, locals, position)
    hist,     \* per caller: history of the call in progress (observation only)
    envOps,   \* number of steps other processes have taken on the tree
    dirStatus,   \* the listed directory: "dir", "none" (absent) or "denied"
    dirEntries,  \* the entries of the listed directory: records [name, kind]
    obs,         \* the last call of the lister or classifier and what it returned
    checked      \* the validator's call: target platform, path string, result

fsVars == <<fs, call, hist, envOps>>

dirVars == <<dirStatus, dirEntries, obs>>

pathVars == <<checked>>

vars == <<fs, call, hist, envOps, dirStatus, dirEntries, obs, checked>>

(***************************************************************************)
(* Bounds                                                                  *)
(***************************************************************************)
\* steps of other processes (removals, creations) during the run
MaxEnvOps == 2

\* entries in the listed directory
MaxEntries == 3

\* the largest limit given to read_dir
MaxCount == 2

(***************************************************************************)
(* Paths: std::path::Path as a sequence of components                      *)
(***************************************************************************)
RootDir == "/"

EmptyPath == <<>>

RootPath == <<RootDir>>

\* Path::parent() is Some(..)
HasParent(p) == p # EmptyPath /\ p # RootPath

\* Path::parent(), where it is Some
Parent(p) == SubSeq(p, 1, Len(p) - 1)

\* Path::starts_with: whole components of `prefix` lead `p`
starts_with(p, prefix) ==
    /\ Len(prefix) <= Len(p)
    /\ SubSeq(p, 1, Len(prefix)) = prefix

\* the nodes of the modelled tree below the current directory ...
RelNodes ==
    { <<"v">>, <<"v", "d">>, <<"v", "d", "a">>, <<"v", "d", "a", "b">>,
      <<"v", "d", "s">> }

\* ... and the same tree below the filesystem root
AbsNodes == { <<RootDir>> \o n : n \in RelNodes }

Kinds == {"none", "dir", "file"}

\* what is at path p: the root and the current directory always exist
Kind(f, p) ==
    IF p \in DOMAIN f THEN f[p]
    ELSE IF p = RootPath THEN "dir"
    ELSE "none"

\* the directories a lookup of p walks through: its proper, non-empty prefixes
Walk(p) == { SubSeq(p, 1, k) : k \in 1..(Len(p) - 1) }

Children(f, p) == { q \in DOMAIN f : Len(q) = Len(p) + 1 /\ starts_with(q, p) /\ f[q] # "none" }

\* a tree is well formed when everything present sits in a directory
WellFormed(f) ==
    \A q \in DOMAIN f : f[q] # "none" => \A a \in Walk(q) : Kind(f, a) = "dir"

\* the error of a lookup that cannot walk to p's parent, "Ok" when it can
WalkError(f, p) ==
    IF \A a \in Walk(p) : Kind(f, a) = "dir" THEN "Ok"
    ELSE LET k == CHOOSE k \in 1..(Len(p) - 1) :
                      /\ Kind(f, SubSeq(p, 1, k)) # "dir"
                      /\ \A j \in 1..(k - 1) : Kind(f, SubSeq(p, 1, j)) = "dir"
         IN IF Kind(f, SubSeq(p, 1, k)) = "none" THEN "NotFound" ELSE "NotADirectory"

(***************************************************************************)
(* Names of path components                                                *)
(***************************************************************************)
\* the longest path segment accepted (NAME_MAX)
NameMax == 255

\* a component one character longer than NameMax
LongName == "long"

\* the characters of one path component (the other modelled names are one
\* character long)
NameChars(n) == IF n = LongName THEN [i \in 1..(NameMax + 1) |-> "a"] ELSE <<n>>

\* a component of p is longer than the filesystem takes (ENAMETOOLONG)
NameTooLong(p) == \E i \in DOMAIN p : Len(NameChars(p[i])) > NameMax

(***************************************************************************)
(* Raw filesystem primitives (super::fs and the system calls under them)   *)
(***************************************************************************)
\* super::fs::mkdir(path): the outcome of mkdir(2)
MkdirOutcome(f, p) ==
    IF p = EmptyPath THEN "NotFound"
    ELSE IF p = RootPath THEN "AlreadyExists"
    ELSE IF WalkError(f, p) # "Ok" THEN WalkError(f, p)
    ELSE IF NameTooLong(p) THEN "InvalidFilename"
    ELSE IF Kind(f, p) # "none" THEN "AlreadyExists"
    ELSE "Ok"

\* the tree after mkdir(2) with the given outcome
MkdirEffect(f, p, out) == IF out = "Ok" THEN [f EXCEPT ![p] = "dir"] ELSE f

\* Path::is_dir()
is_dir(f, p) == p # EmptyPath /\ WalkError(f, p) = "Ok" /\ Kind(f, p) = "dir"

\* std::fs::metadata(path) succeeds
file_exists(f, p) == p # EmptyPath /\ WalkError(f, p) = "Ok" /\ Kind(f, p) # "none"

(***************************************************************************)
(* Strings: a string is the sequence of its characters                     *)
(***************************************************************************)
SLASH_SEPARATOR == "/"

RECURSIVE JoinComponents(_)
\* the components of a relative path joined by the separator
JoinComponents(p) ==
    IF p = <<>> THEN <<>>
    ELSE IF Len(p) = 1 THEN NameChars(p[1])
    ELSE NameChars(p[1]) \o <<SLASH_SEPARATOR>> \o JoinComponents(Tail(p))

\* Path::to_string_lossy()
to_string_lossy(p) ==
    IF p # <<>> /\ p[1] = RootDir THEN <<SLASH_SEPARATOR>> \o JoinComponents(Tail(p))
    ELSE JoinComponents(p)

(***************************************************************************)
(* Path validator                                                          *)
(***************************************************************************)
\* the longest path accepted on macOS
MacPathMax == 1016

\* the longest path accepted on Windows
WindowsPathMax == 1024

TargetOs == {"linux", "macos", "windows"}

\* the first separator of s at or after idx, Len(s) + 1 when there is none
NextSeparator(s, idx, os) ==
    LET seps == { k \in idx..Len(s) : s[k] = "/" \/ (s[k] = "\\" /\ os = "windows") }
    IN IF seps = {} THEN Len(s) + 1
       ELSE CHOOSE k \in seps : \A j \in seps : k <= j

RECURSIVE SegmentScanAtNameMax(_, _, _, _)
\* mutant of SegmentScan: a segment of NameMax characters is already too long
SegmentScanAtNameMax(s, idx, count, os) ==
    LET next == NextSeparator(s, idx, os)
    IN IF count + (next - idx) >= NameMax THEN "FileNameTooLong"
       ELSE IF next > Len(s) THEN "Ok"
       ELSE SegmentScanAtNameMax(s, next + 1, 0, os)

RECURSIVE SegmentScan(_, _, _, _)
\* the loop over the characters from the idx-th on, `count` being the length of
\* the running segment: every character up to the next separator adds one to
\* count, which must not pass NameMax; a separator sets it to 0
SegmentScan(s, idx, count, os) ==
    LET next == NextSeparator(s, idx, os)
    IN IF count + (next - idx) > NameMax THEN "FileNameTooLong"
       ELSE IF next > Len(s) THEN "Ok"
       ELSE SegmentScan(s, next + 1, 0, os)

\* a character that takes two bytes in UTF-8 (one of U+0080..U+07FF)
WideChar == "w"

\* str::len: the length of the string in bytes
len(s) == Len(s) + Cardinality({ i \in DOMAIN s : s[i] = WideChar })

check_path_length(s, os) ==
    IF os = "macos" /\ len(s) > MacPathMax THEN "FileNameTooLong"
    ELSE IF os = "windows" /\ len(s) > WindowsPathMax THEN "FileNameTooLong"
    ELSE IF s \in { <<".">>, <<".", ".">>, <<"/">> } THEN "FileAccessDenied"
    ELSE SegmentScan(s, 1, 0, os)

\* the platform the filesystem model describes (POSIX error codes)
FsTargetOs == "linux"

\* a path string in pieces: a piece is n times the character c
Piece(c, n) == [c |-> c, n |-> n]

RECURSIVE Expand(_)
\* the string the pieces spell
Expand(pieces) ==
    IF pieces = <<>> THEN <<>>
    ELSE [i \in 1..pieces[1].n |-> pieces[1].c] \o Expand(Tail(pieces))

RECURSIVE Joined(_, _, _)
\* segments of the lengths lens made of the character c, joined by sep
Joined(lens, c, sep) ==
    IF lens = <<>> THEN <<>>
    ELSE IF Len(lens) = 1 THEN <<Piece(c, lens[1])>>
    ELSE <<Piece(c, lens[1]), Piece(sep, 1)>> \o Joined(Tail(lens), c, sep)

\* the most segments of a short path
MaxSegments == 2

\* segment lengths around NAME_MAX
SegmentLens == {0, 1, 254, 255, 256, 300}

\* segment lengths of paths around the total limits of macOS and Windows
LongLens ==
    { <<255, 255, 255, 247>>, <<255, 255, 255, 248>>, <<255, 255, 255, 249>>,
      <<255, 255, 255, 255>>, <<255, 255, 255, 255, 1>> }

SegmentSeqs == UNION { [1..n -> SegmentLens] : n \in 1..MaxSegments }

\* the path strings the validator is given
PathStrings ==
    { (IF lead THEN <<Piece(sep, 1)>> ELSE <<>>) \o Joined(lens, c, sep) :
        lens \in SegmentSeqs \cup LongLens, c \in {"a", WideChar},
        sep \in {"/", "\\"}, lead \in BOOLEAN }
    \cup { <<Piece(".", n)>> : n \in 1..3 }
    \cup { <<Piece(".", n), Piece("/", 1)>> : n \in 1..2 }
    \cup { <<>> }

NoCheck == [os |-> FsTargetOs, path |-> <<>>, result |-> "none"]

\* check_path_length(path_name) in a build for the platform checked.os
CheckPathLength ==
    /\ checked.result = "none"
    /\ checked' = [checked EXCEPT !.result = check_path_length(Expand(checked.path), checked.os)]
    /\ UNCHANGED <<fsVars, dirVars>>

\* no call of the lister or classifier yet
NoObs == [op |-> "none", count |-> 0,
          stream |-> [order |-> <<>>, dots |-> FALSE, at |-> 0, fail |-> "none"],
          status |-> "none",
          ok |-> FALSE, volumes |-> <<>>, result |-> FALSE]

(***************************************************************************)
(* Callers                                                                 *)
(***************************************************************************)
Procs == {"p1", "p2", "p3"}

\* a caller with no call in progress
Idle ==
    [op |-> "none", pc |-> "idle", path |-> <<>>, base |-> <<>>, i |-> 0,
     src |-> <<>>, dst |-> <<>>, j |-> 0, k |-> 0, up |-> FALSE, err |-> "none",
     result |-> "none"]

\* a caller that takes no part in the run
Off == [Idle EXCEPT !.pc = "off"]

NoHist ==
    [created |-> {}, attempts |-> <<>>, bases |-> <<>>, exists |-> FALSE,
     renames |-> <<>>, srcGone |-> <<>>, srcAtCall |-> "none", base0 |-> <<>>,
     first |-> "none", hits |-> {}]

(***************************************************************************)
(* Reliable directory creator                                              *)
(***************************************************************************)
\* mutant of BoundaryReached: the early return is taken when one of dir_path
\* and the boundary leads the other
BoundaryReachedEitherWay(dir_path, base_dir) ==
    /\ to_string_lossy(base_dir) # <<>>
    /\ starts_with(base_dir, dir_path) \/ starts_with(dir_path, base_dir)

\* mutant of BoundaryReached: the early return is taken when dir_path is the
\* boundary or below it
BoundaryReachedBelow(dir_path, base_dir) ==
    to_string_lossy(base_dir) # <<>> /\ starts_with(dir_path, base_dir)

\* os_mkdir_all, the early return: dir_path is the boundary or above it
BoundaryReached(dir_path, base_dir) ==
    to_string_lossy(base_dir) # <<>> /\ starts_with(base_dir, dir_path)

\* mutant of FoldExists: "already exists" is passed on as an error
FoldExistsNever(e) == e

\* os_mkdir_all: "already exists" from a creation primitive becomes success
FoldExists(e) == IF e = "AlreadyExists" THEN "Ok" ELSE e

\* mutant of ShouldRetry: a failed attempt is never repeated
ShouldRetryNever(e, i) == FALSE

\* mutant of ShouldRetry: "not found" is retried twice
ShouldRetryTwice(e, i) == e = "NotFound" /\ i <= 1

\* reliable_mkdir_all: the attempt that failed with e is retried
ShouldRetry(e, i) == e = "NotFound" /\ i = 0

\* reliable_mkdir_all: the boundary the retry runs with
Climb(base_dir) ==
    IF /\ HasParent(base_dir)
       /\ Parent(base_dir) # <<>>
       /\ Parent(base_dir)[1] # RootDir
    THEN Parent(base_dir)
    ELSE base_dir

\* the error conversion of make_dir_all and rename_all keeps the error's kind
to_file_error(e) == e

\* reliable_mkdir_all: the loop around one attempt of os_mkdir_all that ended
\* with e, and the return into make_dir_all or reliable_rename
AfterAttempt(c, e) ==
    IF e # "Ok" /\ ShouldRetry(e, c.i)
    THEN [c EXCEPT !.i = c.i + 1, !.base = Climb(c.base), !.pc = "os_mkdir_all",
                   !.k = 0, !.up = FALSE, !.err = "none"]
    ELSE IF c.op = "rename_all" /\ e = "Ok"
    THEN [c EXCEPT !.pc = "rename_std", !.k = 0, !.up = FALSE, !.err = "none"]
    ELSE [c EXCEPT !.pc = "done", !.result = to_file_error(e), !.k = 0, !.up = FALSE,
                   !.err = "none"]

\* the history after an attempt of os_mkdir_all that ended with e
NoteAttempt(h, c, e) ==
    [h EXCEPT !.attempts = Append(h.attempts, e), !.bases = Append(h.bases, c.base)]

\* mutant of make_dir_all: the path is not validated
make_dir_all_unchecked(p, path, base_dir) ==
    /\ call[p].pc = "idle"
    /\ call' = [call EXCEPT ![p] =
                   [Idle EXCEPT !.op = "make_dir_all", !.path = path, !.base = base_dir,
                                !.pc = "os_mkdir_all"]]
    /\ hist' = [hist EXCEPT ![p] = [NoHist EXCEPT !.base0 = base_dir]]
    /\ UNCHANGED <<fs, envOps>>
    /\ UNCHANGED <<dirVars, pathVars>>

\* make_dir_all(path, base_dir): the validator, then reliable_mkdir_all
make_dir_all(p, path, base_dir) ==
    /\ call[p].pc = "idle"
    /\ LET v == check_path_length(to_string_lossy(path), FsTargetOs)
           c == [Idle EXCEPT !.op = "make_dir_all", !.path = path, !.base = base_dir]
       IN call' = [call EXCEPT ![p] =
                      IF v # "Ok" THEN [c EXCEPT !.pc = "done", !.result = v]
                      ELSE [c EXCEPT !.pc = "os_mkdir_all"]]
    /\ hist' = [hist EXCEPT ![p] = [NoHist EXCEPT !.base0 = base_dir]]
    /\ UNCHANGED <<fs, envOps>>
    /\ UNCHANGED <<dirVars, pathVars>>

\* os_mkdir_all up to its first system call
OsMkdirAllEnter(p) ==
    /\ call[p].pc = "os_mkdir_all"
    /\ LET c == call[p]
       IN IF BoundaryReached(c.path, c.base)
          THEN /\ call' = [call EXCEPT ![p] = AfterAttempt(c, "Ok")]
               /\ hist' = [hist EXCEPT ![p] = NoteAttempt(hist[p], c, "Ok")]
          ELSE /\ call' = [call EXCEPT ![p] =
                              IF HasParent(c.path) /\ Parent(c.path) # <<>>
                              THEN [c EXCEPT !.pc = "create_dir_all",
                                             !.k = Len(Parent(c.path)), !.up = FALSE]
                              ELSE [c EXCEPT !.pc = "mkdir"]]
               /\ UNCHANGED hist
    /\ UNCHANGED <<fs, envOps>>
    /\ UNCHANGED <<dirVars, pathVars>>

\* create_dir_all: the level q of the parent chain is a directory; the next
\* level down is tried, or create_dir_all returns Ok
LevelDone(c) ==
    IF c.k = Len(Parent(c.path))
    THEN [c EXCEPT !.pc = "mkdir", !.k = 0, !.up = FALSE, !.err = "none"]
    ELSE [c EXCEPT !.pc = "create_dir_all", !.k = c.k + 1, !.up = TRUE, !.err = "none"]

\* super::fs::make_dir_all(parent): one mkdir of create_dir_all, which tries the
\* path, on "not found" creates the parent the same way and tries again; after
\* any other error it asks whether the path is a directory
CreateDirAllStep(p) ==
    /\ call[p].pc = "create_dir_all"
    /\ LET c == call[p]
           q == SubSeq(Parent(c.path), 1, c.k)
           out == MkdirOutcome(fs, q)
       IN /\ fs' = MkdirEffect(fs, q, out)
          /\ IF out = "Ok"
             THEN /\ call' = [call EXCEPT ![p] = LevelDone(c)]
                  /\ hist' = [hist EXCEPT ![p].created = @ \cup {q}]
             ELSE IF out = "NotFound" /\ ~c.up
             THEN IF ~HasParent(q)
                  THEN /\ call' = [call EXCEPT ![p] = AfterAttempt(c, "Uncategorized")]
                       /\ hist' = [hist EXCEPT ![p] = NoteAttempt(hist[p], c, "Uncategorized")]
                  ELSE /\ call' = [call EXCEPT ![p] =
                                      IF Parent(q) = <<>> THEN [c EXCEPT !.up = TRUE]
                                      ELSE [c EXCEPT !.k = c.k - 1]]
                       /\ UNCHANGED hist
             ELSE /\ call' = [call EXCEPT ![p] = [c EXCEPT !.pc = "is_dir", !.err = out]]
                  /\ UNCHANGED hist
    /\ UNCHANGED envOps
    /\ UNCHANGED <<dirVars, pathVars>>

\* create_dir_all: `Err(_) if path.is_dir()` after a mkdir that failed with
\* call[p].err: the level counts as created when it is a directory now
IsDirStep(p) ==
    /\ call[p].pc = "is_dir"
    /\ LET c == call[p]
           q == SubSeq(Parent(c.path), 1, c.k)
       IN IF is_dir(fs, q)
          THEN /\ call' = [call EXCEPT ![p] = LevelDone(c)]
               /\ UNCHANGED hist
          ELSE /\ call' = [call EXCEPT ![p] = AfterAttempt(c, FoldExists(c.err))]
               /\ hist' = [hist EXCEPT ![p] =
                              NoteAttempt([hist[p] EXCEPT
                                              !.exists = @ \/ c.err = "AlreadyExists"],
                                          c, FoldExists(c.err))]
    /\ UNCHANGED <<fs, envOps>>
    /\ UNCHANGED <<dirVars, pathVars>>

\* os_mkdir_all: mkdir(dir_path) and the return
Mkdir(p) ==
    /\ call[p].pc = "mkdir"
    /\ LET c == call[p]
           out == MkdirOutcome(fs, c.path)
       IN /\ fs' = MkdirEffect(fs, c.path, out)
          /\ call' = [call EXCEPT ![p] = AfterAttempt(c, FoldExists(out))]
          /\ hist' = [hist EXCEPT ![p] =
                         NoteAttempt([hist[p] EXCEPT
                                         !.exists = @ \/ out = "AlreadyExists",
                                         !.created = IF out = "Ok" THEN @ \cup {c.path} ELSE @],
                                     c, FoldExists(out))]
    /\ UNCHANGED envOps
    /\ UNCHANGED <<dirVars, pathVars>>

(***************************************************************************)
(* Reliable renamer                                                        *)
(***************************************************************************)
\* super::fs::rename_std(src, dst): the outcome of rename(2); both parents are
\* looked up before the source itself
RenameOutcome(f, src, dst) ==
    IF src = EmptyPath \/ dst = EmptyPath THEN "NotFound"
    ELSE IF WalkError(f, src) # "Ok" THEN WalkError(f, src)
    ELSE IF WalkError(f, dst) # "Ok" THEN WalkError(f, dst)
    ELSE IF NameTooLong(src) \/ NameTooLong(dst) THEN "InvalidFilename"
    ELSE IF Kind(f, src) = "none" THEN "NotFound"
    ELSE IF src = dst THEN "Ok"
    ELSE IF Kind(f, src) = "dir" /\ starts_with(dst, src) THEN "InvalidInput"
    ELSE IF Kind(f, src) = "dir" /\ Kind(f, dst) = "file" THEN "NotADirectory"
    ELSE IF Kind(f, src) = "dir" /\ Children(f, dst) # {} THEN "DirectoryNotEmpty"
    ELSE IF Kind(f, src) = "file" /\ Kind(f, dst) = "dir" THEN "IsADirectory"
    ELSE "Ok"

\* the tree after rename(2) with the given outcome (the source has nothing below it)
RenameEffect(f, src, dst, out) ==
    IF out = "Ok" /\ src # dst THEN [f EXCEPT ![dst] = f[src], ![src] = "none"] ELSE f

\* mutant of AfterRename: "not found" is success on the first attempt only
AfterRenameFirstOnly(e, j) ==
    IF e = "Ok" THEN "Ok"
    ELSE IF j = 0 THEN (IF e = "NotFound" THEN "Ok" ELSE "Retry")
    ELSE e

\* mutant of AfterRename: a failed rename is not retried
AfterRenameNoRetry(e, j) ==
    IF e = "Ok" THEN "Ok"
    ELSE IF e = "NotFound" THEN "Ok"
    ELSE e

\* reliable_rename: what the loop does with the outcome e of the rename, the
\* retry counter being j: "Retry", or the value returned
AfterRename(e, j) ==
    IF e = "Ok" THEN "Ok"
    ELSE IF e = "NotFound" THEN "Ok"
    ELSE IF j = 0 THEN "Retry"
    ELSE e

\* reliable_rename: the destination's parent has to be created first
NeedsParent(f, dst) == HasParent(dst) /\ ~file_exists(f, Parent(dst))

\* rename_all(src, dst, base_dir) up to the first step of reliable_mkdir_all or
\* to the rename
rename_all(p, src, dst, base_dir) ==
    /\ call[p].pc = "idle"
    /\ LET c == [Idle EXCEPT !.op = "rename_all", !.src = src, !.dst = dst,
                             !.base = base_dir]
       IN call' = [call EXCEPT ![p] =
                      IF NeedsParent(fs, dst)
                      THEN [c EXCEPT !.pc = "os_mkdir_all", !.path = Parent(dst)]
                      ELSE [c EXCEPT !.pc = "rename_std"]]
    /\ hist' = [hist EXCEPT ![p] = [NoHist EXCEPT !.base0 = base_dir,
                                                  !.srcAtCall = Kind(fs, src)]]
    /\ UNCHANGED <<fs, envOps>>
    /\ UNCHANGED <<dirVars, pathVars>>

\* reliable_rename: one rename and what the loop makes of it
RenameStd(p) ==
    /\ call[p].pc = "rename_std"
    /\ LET c == call[p]
           out == RenameOutcome(fs, c.src, c.dst)
           r == AfterRename(out, c.j)
       IN /\ fs' = RenameEffect(fs, c.src, c.dst, out)
          /\ call' = [call EXCEPT ![p] =
                         IF r = "Retry" THEN [c EXCEPT !.j = c.j + 1]
                         ELSE [c EXCEPT !.pc = "done", !.result = to_file_error(r)]]
          /\ hist' = [hist EXCEPT ![p].renames = Append(@, out),
                                  ![p].srcGone = Append(@, ~file_exists(fs, c.src))]
    /\ UNCHANGED envOps
    /\ UNCHANGED <<dirVars, pathVars>>

(***************************************************************************)
(* The same call once more, and the other processes                        *)
(***************************************************************************)
\* the caller repeats a make_dir_all that has returned, with the same arguments
Again(p) ==
    /\ call[p].pc = "done"
    /\ call[p].op = "make_dir_all"
    /\ hist[p].first = "none"
    /\ LET v == check_path_length(to_string_lossy(call[p].path), FsTargetOs)
           c == [Idle EXCEPT !.op = "make_dir_all", !.path = call[p].path,
                             !.base = hist[p].base0]
       IN call' = [call EXCEPT ![p] =
                      IF v # "Ok" THEN [c EXCEPT !.pc = "done", !.result = v]
                      ELSE [c EXCEPT !.pc = "os_mkdir_all"]]
    /\ hist' = [hist EXCEPT ![p] = [NoHist EXCEPT !.base0 = hist[p].base0,
                                                  !.first = call[p].result]]
    /\ UNCHANGED <<fs, envOps>>
    /\ UNCHANGED <<dirVars, pathVars>>

\* the call of p has started and not returned
Running(p) ==
    call[p].pc \in {"os_mkdir_all", "create_dir_all", "is_dir", "mkdir", "rename_std"}

\* some call has started
Busy == \E p \in Procs : call[p].pc \notin {"idle", "off"}

\* another process removes an empty directory or a file
EnvRemove(n) ==
    /\ Busy
    /\ envOps < MaxEnvOps
    /\ fs[n] # "none"
    /\ Children(fs, n) = {}
    /\ fs' = [fs EXCEPT ![n] = "none"]
    /\ envOps' = envOps + 1
    /\ UNCHANGED <<call, hist>>
    /\ UNCHANGED <<dirVars, pathVars>>

\* another process creates a directory or a file
EnvCreate(n, kind) ==
    /\ Busy
    /\ envOps < MaxEnvOps
    /\ fs[n] = "none"
    /\ WalkError(fs, n) = "Ok"
    /\ fs' = [fs EXCEPT ![n] = kind]
    /\ envOps' = envOps + 1
    /\ UNCHANGED <<call, hist>>
    /\ UNCHANGED <<dirVars, pathVars>>

(***************************************************************************)
(* One caller, with other processes working on the tree                    *)
(***************************************************************************)
\* the paths a call is given
Args == DOMAIN fs \cup {EmptyPath, RootPath}

\* a path beside the tree whose one segment is too long for the validator
LongArg == IF <<"v">> \in DOMAIN fs THEN <<LongName>> ELSE <<RootDir, LongName>>

\* the sources of a rename: nodes with nothing below them
Sources == { n \in DOMAIN fs : n[Len(n)] = "s" }

\* the arguments <<path, base_dir>> of make_dir_all
MkdirArgs == (Args \X Args) \cup {<<LongArg, EmptyPath>>}

\* the arguments <<src, dst, base_dir>> of rename_all
RenameArgs ==
    (Sources \X (DOMAIN fs) \X Args) \cup { <<LongArg, dst, EmptyPath>> : dst \in DOMAIN fs }

Init ==
    /\ \E U \in {RelNodes, AbsNodes} : fs \in { f \in [U -> Kinds] : WellFormed(f) }
    /\ call = [p \in Procs |-> IF p = "p1" THEN Idle ELSE Off]
    /\ hist = [p \in Procs |-> NoHist]
    /\ envOps = 0
    /\ dirStatus = "none"
    /\ dirEntries = {}
    /\ obs = NoObs
    /\ checked = NoCheck

Next ==
    \/ \E p \in Procs, a \in MkdirArgs : make_dir_all(p, a[1], a[2])
    \/ \E p \in Procs, a \in RenameArgs : rename_all(p, a[1], a[2], a[3])
    \/ \E p \in Procs : OsMkdirAllEnter(p)
    \/ \E p \in Procs : CreateDirAllStep(p)
    \/ \E p \in Procs : IsDirStep(p)
    \/ \E p \in Procs : Mkdir(p)
    \/ \E p \in Procs : RenameStd(p)
    \/ \E p \in Procs : Again(p)
    \/ \E n \in DOMAIN fs : EnvRemove(n)
    \/ \E n \in DOMAIN fs, kind \in {"dir", "file"} : EnvCreate(n, kind)

Spec == Init /\ [][Next]_vars

\* the steps of caller p's call
CallStep(p) ==
    OsMkdirAllEnter(p) \/ CreateDirAllStep(p) \/ IsDirStep(p) \/ Mkdir(p) \/ RenameStd(p)

\* a call that has started runs on: the runtime polls its future until it
\* returns (p1 is the one caller of Init)
SpecFair == Init /\ [][Next]_vars /\ WF_vars(CallStep("p1"))

(***************************************************************************)
(* Directory lister and topology classifier                                *)
(***************************************************************************)
\* the metadata file's name
XlMeta ==
    <<"x", "l", ".", "m", "e", "t", "a">>

\* a data directory's name: a hyphenated UUID
DataDirName ==
    <<"5", "5", "0", "e", "8", "4", "0", "0", "-", "e", "2", "9", "b", "-",
    "4", "1", "d", "4", "-", "a", "7", "1", "6", "-", "4", "4", "6", "6",
    "5", "5", "4", "4", "0", "0", "0", "0">>

\* a UUID without hyphens, in mixed case
SimpleUuidName ==
    <<"5", "5", "0", "E", "8", "4", "0", "0", "e", "2", "9", "b", "4", "1",
    "d", "4", "a", "7", "1", "6", "4", "4", "6", "6", "5", "5", "4", "4",
    "0", "0", "0", "0">>

\* a hyphenated UUID but for its last character
NearUuidName ==
    <<"5", "5", "0", "e", "8", "4", "0", "0", "-", "e", "2", "9", "b", "-",
    "4", "1", "d", "4", "-", "a", "7", "1", "6", "-", "4", "4", "6", "6",
    "5", "5", "4", "4", "0", "0", "0", "g">>

\* a nested object's name
Xyzzy ==
    <<"x", "y", "z", "z", "y">>

\* the names an entry of the listed directory can have, and how each is spelled
EntryNames == {"xl.meta", "data-dir", "simple-uuid", "near-uuid", "xyzzy"}

Spelling(id) ==
    CASE id = "xl.meta" -> XlMeta
      [] id = "data-dir" -> DataDirName
      [] id = "simple-uuid" -> SimpleUuidName
      [] id = "near-uuid" -> NearUuidName
      [] id = "xyzzy" -> Xyzzy

\* "other" is an entry that is neither a regular file nor a directory
EntryKinds == {"file", "dir", "other"}

HexDigits ==
    {"0", "1", "2", "3", "4", "5", "6", "7", "8", "9",
     "a", "b", "c", "d", "e", "f", "A", "B", "C", "D", "E", "F"}

\* the 8-4-4-4-12 form of a UUID
IsHyphenated(s) ==
    /\ Len(s) = 36
    /\ \A n \in 1..36 :
           IF n \in {9, 14, 19, 24} THEN s[n] = "-" ELSE s[n] \in HexDigits

\* uuid::Uuid::parse_str(s).is_ok(): 32 digits, the hyphenated form, the
\* hyphenated form in braces, or the hyphenated form after "urn:uuid:"
parse_str_ok(s) ==
    \/ Len(s) = 32 /\ \A n \in 1..32 : s[n] \in HexDigits
    \/ IsHyphenated(s)
    \/ Len(s) = 38 /\ s[1] = "{" /\ s[38] = "}" /\ IsHyphenated(SubSeq(s, 2, 37))
    \/ /\ Len(s) = 45
       /\ SubSeq(s, 1, 9) = <<"u", "r", "n", ":", "u", "u", "i", "d", ":">>
       /\ IsHyphenated(SubSeq(s, 10, 45))

\* str::ends_with(SLASH_SEPARATOR)
ends_with_slash(s) == s # <<>> /\ s[Len(s)] = SLASH_SEPARATOR

RECURSIVE trim_end_slashes(_)
\* str::trim_end_matches(SLASH_SEPARATOR)
trim_end_slashes(s) ==
    IF ends_with_slash(s) THEN trim_end_slashes(SubSeq(s, 1, Len(s) - 1)) ELSE s

\* mutant of PushName: a directory's name is returned bare
PushNameBare(volumes, name, kind) ==
    IF kind \in {"file", "dir"} THEN Append(volumes, name) ELSE volumes

\* mutant of PushName: two separators follow a directory's name
PushNameTwoSeparators(volumes, name, kind) ==
    IF kind = "file" THEN Append(volumes, name)
    ELSE IF kind = "dir" THEN Append(volumes, name \o <<SLASH_SEPARATOR, SLASH_SEPARATOR>>)
    ELSE volumes

\* read_dir: what an entry of the given file type adds to the result
PushName(volumes, name, kind) ==
    IF kind = "file" THEN Append(volumes, name)
    ELSE IF kind = "dir" THEN Append(volumes, name \o <<SLASH_SEPARATOR>>)
    ELSE volumes

\* read_dir: the entry names the loop passes over
SkippedName(name) == name = <<>> \/ name = <<".">> \/ name = <<".", ".">>

RECURSIVE ReadDirLoopPartial(_, _, _, _)
\* mutant of ReadDirLoop: a failure ends the loop and the names collected so far
\* are returned
ReadDirLoopPartial(stream, idx, count, volumes) ==
    IF idx > Len(stream) THEN [ok |-> TRUE, volumes |-> volumes]
    ELSE IF stream[idx].fail = "next_entry" THEN [ok |-> TRUE, volumes |-> volumes]
    ELSE IF SkippedName(stream[idx].name) THEN ReadDirLoopPartial(stream, idx + 1, count, volumes)
    ELSE IF stream[idx].fail = "file_type" THEN [ok |-> TRUE, volumes |-> volumes]
    ELSE LET pushed == PushName(volumes, stream[idx].name, stream[idx].kind)
         IN IF count - 1 = 0 THEN [ok |-> TRUE, volumes |-> pushed]
            ELSE ReadDirLoopPartial(stream, idx + 1, count - 1, pushed)

RECURSIVE ReadDirLoop(_, _, _, _)
\* read_dir: the loop over the entries the directory stream delivers, from the
\* idx-th on; an item of the stream is [name, kind, fail], fail naming the call
\* that fails on it ("next_entry", "file_type") or "none"
ReadDirLoop(stream, idx, count, volumes) ==
    IF idx > Len(stream) THEN [ok |-> TRUE, volumes |-> volumes]
    ELSE IF stream[idx].fail = "next_entry" THEN [ok |-> FALSE, volumes |-> <<>>]
    ELSE IF SkippedName(stream[idx].name) THEN ReadDirLoop(stream, idx + 1, count, volumes)
    ELSE IF stream[idx].fail = "file_type" THEN [ok |-> FALSE, volumes |-> <<>>]
    ELSE LET pushed == PushName(volumes, stream[idx].name, stream[idx].kind)
         IN IF count - 1 = 0 THEN [ok |-> TRUE, volumes |-> pushed]
            ELSE ReadDirLoop(stream, idx + 1, count - 1, pushed)

\* read_dir(path, count): the directory is opened, then listed
read_dir(status, stream, count) ==
    IF status # "dir" THEN [ok |-> FALSE, volumes |-> <<>>]
    ELSE ReadDirLoop(stream, 1, count, <<>>)

\* mutant of is_empty_dir: a listing that fails counts as empty
is_empty_dir_or_error(listing) == ~listing.ok \/ listing.volumes = <<>>

\* is_empty_dir, given what read_dir(path, 1) returned
is_empty_dir(listing) == listing.ok /\ listing.volumes = <<>>

\* mutant of is_empty_dir_except_xlmeta: every entry is examined, not only the
\* directories
is_empty_dir_except_xlmeta_all(listing) ==
    IF listing.ok
    THEN ~\E n \in DOMAIN listing.volumes :
              ~parse_str_ok(trim_end_slashes(listing.volumes[n]))
    ELSE TRUE

\* is_empty_dir_except_xlmeta, given what read_dir(path, 0) returned
is_empty_dir_except_xlmeta(listing) ==
    IF listing.ok
    THEN ~\E n \in DOMAIN listing.volumes :
              IF ~ends_with_slash(listing.volumes[n]) THEN FALSE
              ELSE ~parse_str_ok(trim_end_slashes(listing.volumes[n]))
    ELSE TRUE

\* the orders in which a set of entries can be enumerated
Orders(S) ==
    { q \in [1..Cardinality(S) -> S] : \A a, b \in 1..Cardinality(S) : a # b => q[a] # q[b] }

\* the entries "." and ".." (and an unnamed one) a raw stream may deliver first
DotItems ==
    << [name |-> <<".">>, kind |-> "dir", fail |-> "none"],
       [name |-> <<".", ".">>, kind |-> "dir", fail |-> "none"],
       [name |-> <<>>, kind |-> "other", fail |-> "none"] >>

\* the stream delivering the entries in the order in.order, after the dot
\* entries when in.dots; its in.at-th entry fails with in.fail
Stream(in) ==
    (IF in.dots THEN DotItems ELSE <<>>) \o
    [n \in 1..Len(in.order) |->
        [name |-> Spelling(in.order[n].name), kind |-> in.order[n].kind,
         fail |-> IF n = in.at THEN in.fail ELSE "none"]]

\* what a listing of the directory may meet: an enumeration order, and a
\* failure on one of the entries or none
StreamsOf(entries) ==
    { [order |-> q, dots |-> dots, at |-> 0, fail |-> "none"] :
        q \in Orders(entries), dots \in BOOLEAN }
    \cup
    { [order |-> q, dots |-> dots, at |-> at, fail |-> fail] :
        q \in Orders(entries), dots \in BOOLEAN,
        at \in 1..Cardinality(entries), fail \in {"next_entry", "file_type"} }

\* another process adds an entry to the directory
AddEntry(name, kind) ==
    /\ obs.op = "none"
    /\ dirStatus # "none"
    /\ Cardinality(dirEntries) < MaxEntries
    /\ \A e \in dirEntries : e.name # name
    /\ dirEntries' = dirEntries \cup {[name |-> name, kind |-> kind]}
    /\ UNCHANGED <<dirStatus, obs, fsVars, pathVars>>

\* another process removes an entry from the directory
RemoveEntry(e) ==
    /\ obs.op = "none"
    /\ dirStatus # "none"
    /\ e \in dirEntries
    /\ dirEntries' = dirEntries \ {e}
    /\ UNCHANGED <<dirStatus, obs, fsVars, pathVars>>

\* the directory is created, removed (when empty), or its permissions change
SetStatus(status) ==
    /\ obs.op = "none"
    /\ dirStatus # status
    /\ status = "none" => dirEntries = {}
    /\ dirStatus' = status
    /\ UNCHANGED <<dirEntries, obs, fsVars, pathVars>>

\* the caller takes the value returned; the directory changes between calls
Return ==
    /\ obs.op # "none"
    /\ obs' = NoObs
    /\ UNCHANGED <<dirStatus, dirEntries, fsVars, pathVars>>

\* read_dir(path, count)
ReadDir(stream, count) ==
    /\ obs.op = "none"
    /\ LET listing == read_dir(dirStatus, Stream(stream), count)
       IN obs' = [op |-> "read_dir", count |-> count, stream |-> stream,
                  status |-> dirStatus, ok |-> listing.ok,
                  volumes |-> listing.volumes, result |-> FALSE]
    /\ UNCHANGED <<dirStatus, dirEntries, fsVars, pathVars>>

\* is_empty_dir(path)
IsEmptyDir(stream) ==
    /\ obs.op = "none"
    /\ LET listing == read_dir(dirStatus, Stream(stream), 1)
       IN obs' = [op |-> "is_empty_dir", count |-> 1, stream |-> stream,
                  status |-> dirStatus, ok |-> listing.ok,
                  volumes |-> listing.volumes, result |-> is_empty_dir(listing)]
    /\ UNCHANGED <<dirStatus, dirEntries, fsVars, pathVars>>

\* is_empty_dir_except_xlmeta(path)
IsEmptyDirExceptXlmeta(stream) ==
    /\ obs.op = "none"
    /\ LET listing == read_dir(dirStatus, Stream(stream), 0)
       IN obs' = [op |-> "is_empty_dir_except_xlmeta", count |-> 0, stream |-> stream,
                  status |-> dirStatus, ok |-> listing.ok,
                  volumes |-> listing.volumes,
                  result |-> is_empty_dir_except_xlmeta(listing)]
    /\ UNCHANGED <<dirStatus, dirEntries, fsVars, pathVars>>

\* a call is made when the last one has returned
Streams == IF obs.op = "none" THEN StreamsOf(dirEntries) ELSE {}

DirInit ==
    /\ fs = [n \in RelNodes |-> "none"]
    /\ call = [p \in Procs |-> Off]
    /\ hist = [p \in Procs |-> NoHist]
    /\ envOps = 0
    /\ dirStatus \in {"none", "dir"}
    /\ dirEntries = {}
    /\ obs = NoObs
    /\ checked = NoCheck

DirNext ==
    \/ \E name \in EntryNames, kind \in EntryKinds : AddEntry(name, kind)
    \/ \E e \in dirEntries : RemoveEntry(e)
    \/ \E status \in {"none", "dir", "denied"} : SetStatus(status)
    \/ \E stream \in Streams, count \in 0..MaxCount : ReadDir(stream, count)
    \/ \E stream \in Streams : IsEmptyDir(stream)
    \/ \E stream \in Streams : IsEmptyDirExceptXlmeta(stream)
    \/ Return

\* the lister and the classifier on a directory other processes change
SpecDir == DirInit /\ [][DirNext]_vars

(***************************************************************************)
(* One creator below an existing boundary, and a process removing          *)
(* directories of the chain between the boundary and the path              *)
(***************************************************************************)
\* the directories strictly below the boundary down to the path
Chain(path, base) == { n \in DOMAIN fs : n # base /\ starts_with(n, base) /\ starts_with(path, n) }

\* make_dir_all(path, base_dir) with path strictly below the existing boundary
RaceStart(p, path, base_dir) ==
    /\ is_dir(fs, base_dir)
    /\ path # base_dir
    /\ starts_with(path, base_dir)
    /\ make_dir_all(p, path, base_dir)

\* another process removes an empty directory of the chain while the call of p
\* runs; the attempt it falls into is noted
ChainRemove(p, n) ==
    /\ Running(p)
    /\ envOps < MaxEnvOps
    /\ n \in Chain(call[p].path, hist[p].base0)
    /\ fs[n] = "dir"
    /\ Children(fs, n) = {}
    /\ fs' = [fs EXCEPT ![n] = "none"]
    /\ envOps' = envOps + 1
    /\ hist' = [hist EXCEPT ![p].hits = @ \cup {call[p].i + 1}]
    /\ UNCHANGED call
    /\ UNCHANGED <<dirVars, pathVars>>

RaceInit ==
    /\ \E U \in {RelNodes, AbsNodes} :
           fs \in { f \in [U -> {"none", "dir"}] : WellFormed(f) }
    /\ call = [p \in Procs |-> IF p = "p1" THEN Idle ELSE Off]
    /\ hist = [p \in Procs |-> NoHist]
    /\ envOps = 0
    /\ dirStatus = "none"
    /\ dirEntries = {}
    /\ obs = NoObs
    /\ checked = NoCheck

RaceNext ==
    \/ \E p \in Procs, path \in DOMAIN fs, base \in DOMAIN fs : RaceStart(p, path, base)
    \/ \E p \in Procs : OsMkdirAllEnter(p)
    \/ \E p \in Procs : CreateDirAllStep(p)
    \/ \E p \in Procs : IsDirStep(p)
    \/ \E p \in Procs : Mkdir(p)
    \/ \E p \in Procs, n \in DOMAIN fs : ChainRemove(p, n)

SpecRace == RaceInit /\ [][RaceNext]_vars

(***************************************************************************)
(* Several creators under one existing boundary, nobody removing           *)
(***************************************************************************)
\* make_dir_all(path, base_dir) with path at or below the existing boundary,
\* which is the boundary of the calls made so far
SharedStart(p, path, base_dir) ==
    /\ is_dir(fs, base_dir)
    /\ starts_with(path, base_dir)
    /\ \A q \in Procs : call[q].pc # "idle" => hist[q].base0 = base_dir
    /\ make_dir_all(p, path, base_dir)

SharedInit ==
    /\ \E U \in {RelNodes, AbsNodes} :
           fs \in { f \in [U -> {"none", "dir"}] : WellFormed(f) }
    /\ call = [p \in Procs |-> Idle]
    /\ hist = [p \in Procs |-> NoHist]
    /\ envOps = 0
    /\ dirStatus = "none"
    /\ dirEntries = {}
    /\ obs = NoObs
    /\ checked = NoCheck

SharedNext ==
    \/ \E p \in Procs, path \in DOMAIN fs, base \in DOMAIN fs : SharedStart(p, path, base)
    \/ \E p \in Procs : OsMkdirAllEnter(p)
    \/ \E p \in Procs : CreateDirAllStep(p)
    \/ \E p \in Procs : IsDirStep(p)
    \/ \E p \in Procs : Mkdir(p)

\* the callers run their calls side by side, each step a system call
SpecShared == SharedInit /\ [][SharedNext]_vars

PathInit ==
    /\ fs = [n \in RelNodes |-> "none"]
    /\ call = [p \in Procs |-> Off]
    /\ hist = [p \in Procs |-> NoHist]
    /\ envOps = 0
    /\ dirStatus = "none"
    /\ dirEntries = {}
    /\ obs = NoObs
    /\ checked \in [os : TargetOs, path : PathStrings, result : {"none"}]

PathNext == CheckPathLength

\* the validator applied to a path string, in a build for each platform
SpecPath == PathInit /\ [][PathNext]_vars

(***************************************************************************)
(* Properties                                                              *)
(***************************************************************************)
Last(q) == q[Len(q)]

Returned(p, op) == call[p].op = op /\ call[p].pc = "done"

\* e is an error other than "not found"
OtherError(e) == e \notin {"Ok", "NotFound"}

\* C1: no directory created by make_dir_all(path, boundary) is the boundary or
\* an ancestor of the boundary.
C1_NeverCreatesBoundaryOrAbove ==
    \A p \in Procs :
        call[p].op = "make_dir_all" =>
            \A q \in hist[p].created : ~starts_with(hist[p].base0, q)

\* C2: make_dir_all never returns "already exists", neither does any attempt of
\* os_mkdir_all; in particular not the second of two calls with the same
\* arguments of which the first succeeded.
C2_AlreadyExistsIsSuccess ==
    \A p \in Procs :
        /\ \A n \in DOMAIN hist[p].attempts : hist[p].attempts[n] # "AlreadyExists"
        /\ Returned(p, "make_dir_all") => call[p].result # "AlreadyExists"

\* C2 witness: the second of two equal calls, the first having succeeded, has
\* met "already exists" from a creation primitive and returned success.
C2_Witness ==
    \E p \in Procs :
        /\ Returned(p, "make_dir_all")
        /\ hist[p].first = "Ok"
        /\ hist[p].exists
        /\ call[p].result = "Ok"

C3_AttemptsInv ==
    \A p \in Procs :
        LET a == hist[p].attempts
        IN /\ Len(a) <= 2
           /\ Len(a) = 2 => a[1] = "NotFound"
           /\ (Len(a) = 1 /\ a[1] = "NotFound") => Running(p)
           /\ (Len(a) >= 1 /\ a[1] # "NotFound") => ~Running(p) \/ call[p].pc = "rename_std"
           /\ (Returned(p, "make_dir_all") /\ a # <<>>) => call[p].result = Last(a)
           /\ (Returned(p, "rename_all") /\ a # <<>> /\ Last(a) # "Ok") =>
                  call[p].result = Last(a)

\* C3: reliable_mkdir_all runs os_mkdir_all at most twice; a second attempt is
\* made exactly when the first failed with "not found"; the outcome of the last
\* attempt is what the call returns, so a second "not found" and every other
\* error is returned; and every call that has started returns.
C3_AtMostTwoAttempts ==
    /\ []C3_AttemptsInv
    /\ \A p \in Procs : Running(p) ~> call[p].pc = "done"

\* C3 witness: both attempts failed with "not found" and the call returned it.
C3_Witness ==
    \E p \in Procs :
        /\ Returned(p, "make_dir_all")
        /\ hist[p].attempts = <<"NotFound", "NotFound">>
        /\ call[p].result = "NotFound"

\* C4 as stated: rename_all called when src does not exist returns success.
C4_MissingSourceAlwaysSucceeds ==
    \A p \in Procs :
        (/\ Returned(p, "rename_all")
         /\ hist[p].srcAtCall = "none"
         /\ \A n \in DOMAIN hist[p].srcGone : hist[p].srcGone[n])
            => call[p].result = "Ok"

\* C4 as amended: a "not found" outcome of the rename primitive, on the first
\* attempt or on the retry, ends rename_all with success and is never returned;
\* a call whose src does not exist fails only when creating dst's parent failed
\* or the rename failed twice with an error other than "not found".
C4_NotFoundRenameIsSuccess ==
    \A p \in Procs :
        LET r == hist[p].renames
        IN /\ \A n \in DOMAIN r :
                  r[n] = "NotFound" =>
                      n = Len(r) /\ Returned(p, "rename_all") /\ call[p].result = "Ok"
           /\ (Returned(p, "rename_all") /\ r # <<>>) => call[p].result # "NotFound"
           /\ (Returned(p, "rename_all") /\ hist[p].srcAtCall = "none"
                 /\ call[p].result # "Ok") =>
                  \/ r = <<>> /\ hist[p].attempts # <<>> /\ Last(hist[p].attempts) # "Ok"
                  \/ Len(r) = 2 /\ OtherError(r[2])
                  \/ \E n \in DOMAIN hist[p].srcGone : ~hist[p].srcGone[n]

\* C4 witness: src did not exist, the first rename failed otherwise, the retry
\* reported "not found" and the call returned success.
C4_Witness ==
    \E p \in Procs :
        /\ Returned(p, "rename_all")
        /\ hist[p].srcAtCall = "none"
        /\ Len(hist[p].renames) = 2
        /\ hist[p].renames[2] = "NotFound"
        /\ hist[p].srcGone = <<TRUE, TRUE>>
        /\ call[p].result = "Ok"

C5_RenamesInv ==
    \A p \in Procs :
        LET r == hist[p].renames
        IN /\ Len(r) <= 2
           /\ Len(r) = 2 => OtherError(r[1])
           /\ (Len(r) = 1 /\ OtherError(r[1])) => call[p].pc = "rename_std"
           /\ (Len(r) = 2 /\ OtherError(r[2])) =>
                  Returned(p, "rename_all") /\ call[p].result = r[2]
           /\ (Len(r) = 2 /\ r[2] = "Ok") =>
                  Returned(p, "rename_all") /\ call[p].result = "Ok"

\* C5: reliable_rename calls the rename primitive at most twice; a second time
\* exactly when the first failed with an error other than "not found"; a second
\* such failure is returned, a successful second attempt returns success; and
\* every call that has started returns.
C5_AtMostTwoRenames ==
    /\ []C5_RenamesInv
    /\ \A p \in Procs : call[p].pc = "rename_std" ~> call[p].pc = "done"

\* C5 witness: the first rename failed, the retry moved the source.
C5_Witness ==
    \E p \in Procs :
        /\ Returned(p, "rename_all")
        /\ Len(hist[p].renames) = 2
        /\ OtherError(hist[p].renames[1])
        /\ hist[p].renames[2] = "Ok"
        /\ call[p].result = "Ok"

\* C6: when rename_all returns success, the last rename moved the source or the
\* source did not exist when that rename was attempted.
C6_SuccessMeansMovedOrGone ==
    \A p \in Procs :
        (Returned(p, "rename_all") /\ call[p].result = "Ok") =>
            \/ Last(hist[p].renames) = "Ok"
            \/ Last(hist[p].srcGone)

\* the directory could not be opened, or listing it to the end met a failure
ListingFails == obs.status # "dir" \/ obs.stream.at # 0

\* the directory's subdirectories with names that are no UUID
NestedObjects ==
    { e \in dirEntries : e.kind = "dir" /\ ~parse_str_ok(Spelling(e.name)) }

\* C7: is_empty_dir_except_xlmeta returns true iff the directory cannot be
\* opened or listed, or no subdirectory has a name that fails to parse as a
\* UUID; whatever the files, the other entries and the order of enumeration.
C7_LeafIffOnlyUuidSubdirs ==
    obs.op = "is_empty_dir_except_xlmeta" =>
        (obs.result <=> (ListingFails \/ NestedObjects = {}))

\* C7 witness: beside xl.meta and a data directory the subdirectory xyzzy has
\* been added, and the answer is false.
C7_Witness ==
    /\ obs.op = "is_empty_dir_except_xlmeta"
    /\ ~obs.result
    /\ dirEntries = { [name |-> "xl.meta", kind |-> "file"],
                      [name |-> "data-dir", kind |-> "dir"],
                      [name |-> "xyzzy", kind |-> "dir"] }

\* the directory could not be opened, or its first entry could not be read
OpenOrFirstEntryFails == obs.status # "dir" \/ obs.stream.at = 1

Listable == { e \in dirEntries : e.kind \in {"file", "dir"} }

\* C9: read_dir returns all regular files and directories when the limit is 0,
\* and min(N, k) names when the limit is N > 0 and k of them exist.
C9_LimitCountsReturnedNames ==
    (obs.op = "read_dir" /\ obs.ok) =>
        Len(obs.volumes) =
            IF obs.count = 0 \/ Cardinality(Listable) <= obs.count
            THEN Cardinality(Listable)
            ELSE obs.count

\* C10: a name read_dir returns is not empty, "." or ".."; it is the name of a
\* regular file of the directory as it is, or the name of a subdirectory with
\* one separator appended; entries of other types contribute no name.
C10_NamesReturned ==
    (obs.op = "read_dir" /\ obs.ok) =>
        \A n \in DOMAIN obs.volumes :
            LET v == obs.volumes[n]
            IN /\ v \notin { <<>>, <<".">>, <<".", ".">> }
               /\ \E e \in Listable :
                      v = IF e.kind = "dir" THEN Spelling(e.name) \o <<SLASH_SEPARATOR>>
                          ELSE Spelling(e.name)
               /\ \A e \in dirEntries :
                      /\ e.kind = "other" =>
                             v \notin { Spelling(e.name), Spelling(e.name) \o <<SLASH_SEPARATOR>> }
                      /\ e.kind = "file" => v # Spelling(e.name) \o <<SLASH_SEPARATOR>>
                      /\ e.kind = "dir" => v # Spelling(e.name)

\* C10 witness: a file, a directory and an entry of another type were listed
\* after "." and "..", and two names came back.
C10_Witness ==
    /\ obs.op = "read_dir"
    /\ obs.ok
    /\ obs.stream.dots
    /\ {e.kind : e \in dirEntries} = {"file", "dir", "other"}
    /\ Len(obs.volumes) = 2

\* the listing met its failure: the directory could not be opened, or the entry
\* that fails was enumerated before the limit ended the listing
FailureMet ==
    \/ obs.status # "dir"
    \/ obs.stream.at # 0 /\ (obs.count = 0 \/ obs.stream.at <= obs.count)

\* C11: read_dir is all-or-nothing: when opening the directory, advancing the
\* enumeration or reading an entry's file type fails, the call returns an error
\* and none of the names collected before the failure; a call that returns
\* names met no failure.
C11_AllOrNothing ==
    obs.op = "read_dir" =>
        /\ FailureMet => (~obs.ok /\ obs.volumes = <<>>)
        /\ obs.ok => ~FailureMet

\* C11 witness: the file type of the third entry could not be read, after a
\* file and a directory had been collected, and no name came back.
C11_Witness ==
    /\ obs.op = "read_dir"
    /\ obs.count = 0
    /\ obs.stream.at = 3
    /\ obs.stream.fail = "file_type"
    /\ obs.stream.order[1].kind = "file"
    /\ obs.stream.order[2].kind = "dir"
    /\ ~obs.ok
    /\ obs.volumes = <<>>

\* the length in bytes of the string the pieces spell
TotalLen(pieces) ==
    LET RECURSIVE Sum(_)
        Sum(q) == IF q = <<>> THEN 0
                  ELSE q[1].n * (IF q[1].c = WideChar THEN 2 ELSE 1) + Sum(Tail(q))
    IN Sum(pieces)

\* the characters that separate segments on a platform
Separators(os) == IF os = "windows" THEN {"/", "\\"} ELSE {"/"}

\* the longest run of characters between separators
LongestRun(pieces, os) ==
    LET RECURSIVE Run(_, _, _)
        Run(q, cur, best) ==
            IF q = <<>> THEN (IF cur > best THEN cur ELSE best)
            ELSE IF q[1].c \in Separators(os) /\ q[1].n > 0
                 THEN Run(Tail(q), 0, IF cur > best THEN cur ELSE best)
                 ELSE Run(Tail(q), cur + q[1].n, best)
    IN Run(pieces, 0, 0)

\* C12: check_path_length is a function of the path string and the target
\* platform alone.  It answers FileNameTooLong when the total length is over
\* 1016 (macOS) or 1024 (Windows); otherwise FileAccessDenied when the whole
\* path is ".", ".." or "/"; otherwise FileNameTooLong when a run of characters
\* between separators ("/", on Windows also "\") is longer than 255; otherwise
\* success.  A segment of 255 characters is accepted, one of 256 or of 300 is
\* rejected on every platform.  It changes nothing but its own result.
C12_Verdict ==
    checked.result # "none" =>
        /\ checked.result =
              IF checked.os = "macos" /\ TotalLen(checked.path) > 1016 THEN "FileNameTooLong"
              ELSE IF checked.os = "windows" /\ TotalLen(checked.path) > 1024
                   THEN "FileNameTooLong"
              ELSE IF Expand(checked.path) \in { <<".">>, <<".", ".">>, <<"/">> }
                   THEN "FileAccessDenied"
              ELSE IF LongestRun(checked.path, checked.os) > 255 THEN "FileNameTooLong"
              ELSE "Ok"
        /\ checked.path = <<Piece("a", 255)>> => checked.result = "Ok"
        /\ checked.path \in { <<Piece("a", 256)>>, <<Piece("a", 300)>> } =>
               checked.result = "FileNameTooLong"
        /\ fs = [n \in RelNodes |-> "none"]
        /\ obs = NoObs

\* C12 witness: a path of 1025 bytes in segments of at most 255 characters is
\* too long in a build for Windows.
C12_Witness ==
    /\ checked.os = "windows"
    /\ TotalLen(checked.path) = 1025
    /\ LongestRun(checked.path, checked.os) = 255
    /\ checked.result = "FileNameTooLong"

\* check_path_length rejects the path
Rejected(path) == check_path_length(to_string_lossy(path), FsTargetOs) # "Ok"

\* the call of p has finished no attempt, no rename and no mkdir
NoPrimitive(p) ==
    /\ hist[p].attempts = <<>>
    /\ hist[p].renames = <<>>
    /\ hist[p].created = {}

\* C13 as stated: the validator gates the entry points: when check_path_length
\* rejects a path argument of make_dir_all or rename_all, the operation performs
\* no filesystem primitive.
C13_ValidatorGatesAll ==
    \A p \in Procs :
        /\ (call[p].op = "make_dir_all" /\ Rejected(call[p].path)) => NoPrimitive(p)
        /\ (call[p].op = "rename_all" /\ (Rejected(call[p].src) \/ Rejected(call[p].dst))) =>
               NoPrimitive(p)

\* C13 as amended: make_dir_all is the one entry point that validates its path:
\* when check_path_length rejects path, the call returns that error at once and
\* performs no filesystem primitive.
C13_MakeDirAllIsGated ==
    \A p \in Procs :
        (call[p].op = "make_dir_all" /\ Rejected(call[p].path)) =>
            /\ NoPrimitive(p)
            /\ call[p].pc = "done"
            /\ call[p].result = check_path_length(to_string_lossy(call[p].path), FsTargetOs)

\* C13 witness: make_dir_all of a path with a segment of 256 characters
\* returned FileNameTooLong.
C13_Witness ==
    \E p \in Procs :
        /\ Returned(p, "make_dir_all")
        /\ NameTooLong(call[p].path)
        /\ call[p].result = "FileNameTooLong"
        /\ NoPrimitive(p)

\* the call of p is in, or has been through, a creation primitive
InCreation(p) ==
    \/ call[p].pc \in {"create_dir_all", "is_dir", "mkdir"}
    \/ hist[p].created # {}
    \/ \E n \in DOMAIN hist[p].attempts : hist[p].attempts[n] # "Ok"

C15_OneRemovalIsAbsorbed ==
    \A p \in Procs :
        Returned(p, "make_dir_all") =>
            /\ envOps <= 1 => call[p].result = "Ok"
            /\ call[p].result # "Ok" =>
                   /\ call[p].result = "NotFound"
                   /\ hist[p].attempts = <<"NotFound", "NotFound">>
                   /\ hist[p].hits = {1, 2}

\* C15 witness: one directory was removed during the first attempt, which
\* failed with "not found"; the retry succeeded.
C15_Witness ==
    \E p \in Procs :
        /\ Returned(p, "make_dir_all")
        /\ envOps = 1
        /\ hist[p].hits = {1}
        /\ hist[p].attempts = <<"NotFound", "Ok">>
        /\ call[p].result = "Ok"

\* C16: make_dir_all calls that run side by side on the same or overlapping
\* paths under one existing boundary, in any interleaving and with no process
\* removing directories, all return success, and a path whose call has
\* returned exists as a directory from then on.
C16_SideBySideAllSucceed ==
    \A p \in Procs :
        Returned(p, "make_dir_all") =>
            /\ call[p].result = "Ok"
            /\ is_dir(fs, call[p].path)

\* C16 witness: both calls have returned; one asked for a directory above the
\* other's, created a level of the chain and met another level, its own path
\* included, already created by the other.
C16_Witness ==
    \E p, q \in Procs :
        /\ p # q
        /\ Returned(p, "make_dir_all")
        /\ Returned(q, "make_dir_all")
        /\ call[p].path # call[q].path
        /\ hist[p].created # {}
        /\ hist[p].exists
        /\ call[p].path \in hist[q].created

\* the boundary the retry is said to use: the parent of the boundary when it
\* has one that is a directory below the filesystem root
ClaimedRetryBase(base_dir) ==
    IF HasParent(base_dir) /\ Parent(base_dir) \notin {EmptyPath, RootPath}
    THEN Parent(base_dir)
    ELSE base_dir

\* C17: when the first attempt fails with "not found", the retry runs with the
\* boundary's parent as boundary whenever the boundary has a parent that is not
\* above the filesystem root (for /v/d the retry uses /v), and with the
\* unchanged boundary otherwise.
C17_RetryUsesParentOfBoundary ==
    \A p \in Procs :
        call[p].i = 1 => call[p].base = ClaimedRetryBase(hist[p].base0)

\* C18: the climb of the boundary never changes what the retry does: in a call
\* whose first attempt failed with "not found", the early return of
\* os_mkdir_all is not taken on the retry, with the boundary the retry uses as
\* with the boundary the call was given, so the retry goes on to the creation
\* primitives as a retry with the unchanged boundary would.
C18_ClimbChangesNothing ==
    \A p \in Procs :
        call[p].i = 1 =>
            /\ ~BoundaryReached(call[p].path, call[p].base)
            /\ ~BoundaryReached(call[p].path, hist[p].base0)
            /\ Len(hist[p].bases) = 2 => ~BoundaryReached(call[p].path, hist[p].bases[2])

\* C18 witness: the retry ran with the parent of the boundary the call was
\* given and went through the creation primitives.
C18_Witness ==
    \E p \in Procs :
        /\ call[p].i = 1
        /\ call[p].pc = "done"
        /\ hist[p].bases = <<hist[p].base0, Parent(hist[p].base0)>>
        /\ hist[p].attempts[1] = "NotFound"
        /\ hist[p].created # {}

\* C19: when make_dir_all returns success without having taken the early
\* return for the boundary, and no other process has touched the tree during
\* the call, path exists as a directory; the call never returns success after
\* skipping the creation of path itself.
C19_SuccessMeansDirectory ==
    \A p \in Procs :
        (/\ Returned(p, "make_dir_all")
         /\ call[p].result = "Ok"
         /\ envOps = 0
         /\ ~BoundaryReached(call[p].path, call[p].base)) =>
            is_dir(fs, call[p].path)

\* C20: is_empty_dir returns true only if the directory holds no regular
\* file and no subdirectory, in every enumeration order, and also when the
\* directory holds entries that are neither and that are enumerated first.
C20_TrueOnlyIfNothingListable ==
    (obs.op = "is_empty_dir" /\ obs.result) => Listable = {}

====
